---- MODULE Spec2Model ----
(***************************************************************************)
(* Model of aida/transport/plugins/ssh.py: the SshTransport session        *)
(* lifecycle (__enter__/__exit__), the sshclient/sftp guards, the          *)
(* filesystem operations forwarded to the SFTP sub-channel, and the        *)
(* exec_command_wait protocol over a command channel with bounded windows. *)
(***************************************************************************)
EXTENDS Integers, Sequences, FiniteSets, TLC

VARIABLES
    is_open,    \* self._is_open
    sftp,       \* self._sftp: "None", "open" or "closed"
    client,     \* self._client: "new", "connected" or "closed"
    cwd,        \* self._sftp._cwd as emulated by paramiko: NonePath or an absolute path
    fs,         \* the remote filesystem: the set of directories created so far
    scope,      \* position relative to a `with SshTransport(...) as t:` block
    last,       \* outcome of the last completed call
    pc,         \* position of the caller inside exec_command_wait
    ch          \* the command channel of the latest run of exec_command_wait

vars == <<is_open, sftp, client, cwd, fs, scope, last, pc, ch>>

(***************************************************************************)
(* Bounds                                                                  *)
(***************************************************************************)
MaxCap == 1      \* largest capacity of a channel buffer (window), in bytes
MaxStdin == 4    \* longest stdin string handed to exec_command_wait
MaxErr == 2      \* most bytes a remote process writes to its error stream

(***************************************************************************)
(* Paths.  A path is a tuple of strings; an absolute path starts with "/". *)
(* <<>> is the empty string '' and NonePath is Python's None.              *)
(***************************************************************************)
NonePath == <<"None">>
Root == <<"/">>
Home == <<"/", "h">>
DirD == <<"/", "h", "d">>
FileF == <<"/", "h", "f">>
DirP == <<"/", "h", "p">>
DirM == <<"/", "h", "m">>

PathArgs ==
    { NonePath, <<>>, <<".">>, <<"..">>, <<"d">>, <<"f">>, <<"p">>, <<"m">>, DirD }

CopyArgs == { NonePath, <<>>, <<"f">>, <<"m">> }

LocalPaths == { <<"/", "tmp", "x">>, <<"x">> }

Truthy(path) == path # NonePath /\ path # <<>>

IsAbs(path) == Len(path) > 0 /\ path[1] = "/"

\* paramiko SFTPClient._adjust_cwd: relative paths are joined to the emulated cwd
AdjustCwd(c, path) ==
    IF c = NonePath THEN path
    ELSE IF IsAbs(path) THEN path
    ELSE c \o path

RECURSIVE Collapse(_, _)
Collapse(acc, comps) ==
    IF comps = <<>> THEN acc
    ELSE LET x == Head(comps) IN
         IF x = "." \/ x = "/" THEN Collapse(acc, Tail(comps))
         ELSE IF x = ".."
              THEN Collapse(IF Len(acc) > 1 THEN SubSeq(acc, 1, Len(acc) - 1) ELSE acc,
                            Tail(comps))
              ELSE Collapse(Append(acc, x), Tail(comps))

\* the server's realpath: relative paths start from the login directory
Resolve(path) ==
    IF IsAbs(path) THEN Collapse(Root, Tail(path)) ELSE Collapse(Home, path)

(***************************************************************************)
(* The remote filesystem.  /, /h and /h/d are directories, /h/p is a       *)
(* directory without search permission, /h/f is a file of another user and *)
(* /h/m can be created and removed; nothing else is writable.              *)
(***************************************************************************)
Kind(f, node) ==
    IF node \in {Root, Home, DirD} THEN "dir"
    ELSE IF node = DirP THEN "nox"
    ELSE IF node = DirM /\ DirM \in f THEN "dir"
    ELSE IF node = FileF THEN "file"
    ELSE "absent"

ENOENT == 2
EACCES == 13

\* walk the components of an absolute path on the server; 0 is success
RECURSIVE Walk(_, _, _)
Walk(f, cur, comps) ==
    IF comps = <<>> THEN [errno |-> 0, node |-> cur]
    ELSE IF Kind(f, cur) = "absent" THEN [errno |-> ENOENT, node |-> cur]
    ELSE IF Kind(f, cur) = "file" THEN [errno |-> ENOENT, node |-> cur]
    ELSE IF Kind(f, cur) = "nox" THEN [errno |-> EACCES, node |-> cur]
    ELSE LET x == Head(comps) IN
         IF x = "." THEN Walk(f, cur, Tail(comps))
         ELSE IF x = ".."
              THEN Walk(f, IF Len(cur) > 1 THEN SubSeq(cur, 1, Len(cur) - 1) ELSE cur,
                        Tail(comps))
              ELSE Walk(f, Append(cur, x), Tail(comps))

\* the server's stat of a path as sent by the client
ServerStat(f, path) ==
    LET w == IF IsAbs(path) THEN Walk(f, Root, Tail(path)) ELSE Walk(f, Home, path)
    IN  IF w.errno # 0 THEN w
        ELSE IF Kind(f, w.node) = "absent" THEN [errno |-> ENOENT, node |-> w.node]
        ELSE w

\* self.sftp.stat(path): the path is adjusted to the emulated cwd first
SftpStat(f, c, path) == ServerStat(f, AdjustCwd(c, path))

\* self.sftp.normalize(path)
SftpNormalize(c, path) == Resolve(AdjustCwd(c, path))

S_ISDIR(f, node) == Kind(f, node) \in {"dir", "nox"}
S_ISREG(f, node) == Kind(f, node) = "file"

\* the sub-channel answers requests only while it and its connection are up
SftpUsable == sftp = "open" /\ client = "connected"

(***************************************************************************)
(* Outcomes                                                                *)
(***************************************************************************)
NoValue == <<"-">>
PyTrue == <<"True">>
PyFalse == <<"False">>

Outcome(op, outcome, value, errno, reqs) ==
    [op |-> op, outcome |-> outcome, value |-> value, errno |-> errno, reqs |-> reqs]

NotOpen(op) == Outcome(op, "TransportInternalError", NoValue, 0, 0)

\* escape_for_bash: the string between single quotes (a path of the remote tree
\* holds no quote of its own)
EscapeForBash(path) == <<"'">> \o path \o <<"'">>

\* command_to_execute of _exec_command_internal
CommandToExecute(c, command) ==
    IF c # NonePath THEN <<"cd">> \o EscapeForBash(c) \o <<"&&", command>>
    ELSE <<command>>

\* the directory in which the remote shell runs the command it was handed: the
\* word after cd with its quotes removed, or the login directory without a cd
ShellDir(issued) ==
    IF Len(issued) > 4 /\ issued[1] = "cd"
    THEN SubSeq(issued, 3, Len(issued) - 3)
    ELSE Home

IdleChannel ==
    [open |-> FALSE, cd |-> NonePath, cmd |-> "-", issued |-> <<>>,
     caller |-> "-", combine |-> FALSE,
     stdin |-> "none", n |-> 0, sent |-> 0,
     inCap |-> 0, winCap |-> 0, inbuf |-> <<>>, inEof |-> FALSE,
     outbuf |-> <<>>, errbuf |-> <<>>, held |-> 0,
     echo |-> FALSE, errTotal |-> 0, errSent |-> 0, alive |-> FALSE,
     gotOut |-> <<>>, gotErr |-> <<>>, retval |-> -1, trace |-> <<>>]

Init ==
    /\ is_open = FALSE
    /\ sftp = "None"
    /\ client = "new"
    /\ cwd = NonePath
    /\ fs = {}
    /\ scope = "none"
    /\ last = Outcome("__init__", "ok", NoValue, 0, 0)
    /\ pc = "idle"
    /\ ch = IdleChannel

(***************************************************************************)
(* Session lifecycle                                                       *)
(***************************************************************************)
EnterFailures == {"none", "connect", "open_sftp", "normalize", "chdir"}
ExitFailures == {"none", "sftp", "client"}

\* paramiko SFTPClient.chdir(path) for a path that is not None
SftpChdir(f, c, path) ==
    LET st == SftpStat(f, c, path) IN
    IF st.errno # 0
    THEN [outcome |-> "IOError", errno |-> st.errno, cwd |-> c, reqs |-> 1]
    ELSE IF ~S_ISDIR(f, st.node)
    THEN [outcome |-> "SFTPError", errno |-> 0, cwd |-> c, reqs |-> 1]
    ELSE [outcome |-> "ok", errno |-> 0, cwd |-> SftpNormalize(c, path), reqs |-> 2]

\* SshTransport.__enter__, called on a session that is not open;
\* scoped: called by a with statement
Enter(failAt, scoped) ==
    /\ pc = "idle"
    /\ ~is_open
    /\ scope # "body"
    /\ IF failAt = "connect"
       THEN /\ client' \in {client, "closed"}
            /\ client = "new" => client' = "new"
            /\ UNCHANGED <<sftp, cwd, is_open>>
            /\ scope' = "none"
            /\ last' = Outcome("__enter__", "SSHException", NoValue, 0, 1)
       ELSE /\ client' = "connected"
            /\ IF failAt = "open_sftp"
               THEN /\ UNCHANGED <<sftp, cwd, is_open>>
                    /\ scope' = "none"
                    /\ last' = Outcome("__enter__", "SSHException", NoValue, 0, 2)
               ELSE /\ sftp' = "open"
                    /\ IF failAt = "normalize"
                       THEN /\ cwd' = NonePath
                            /\ UNCHANGED is_open
                            /\ scope' = "none"
                            /\ last' = Outcome("__enter__", "IOError", NoValue, 0, 3)
                       ELSE LET r == SftpChdir(fs, NonePath, SftpNormalize(NonePath, <<".">>))
                            IN  IF failAt = "chdir" \/ r.outcome # "ok"
                                THEN /\ cwd' = NonePath
                                     /\ UNCHANGED is_open
                                     /\ scope' = "none"
                                     /\ last' = Outcome("__enter__", "IOError", NoValue, 0, 4)
                                ELSE /\ cwd' = r.cwd
                                     /\ is_open' = TRUE
                                     /\ scope' = IF scoped THEN "body" ELSE "none"
                                     /\ last' = Outcome("__enter__", "ok", NoValue, 0, 3 + r.reqs)
    /\ UNCHANGED <<fs, pc, ch>>

\* SshTransport.__exit__; scoped: called when a with block is left
Exit(failAt, scoped) ==
    /\ pc = "idle"
    /\ scoped <=> scope = "body"
    /\ scope' = IF scoped THEN "left" ELSE scope
    /\ IF sftp = "None"
       THEN /\ last' = Outcome("__exit__", "AttributeError", NoValue, 0, 0)
            /\ UNCHANGED <<sftp, client, is_open, ch>>
       ELSE IF failAt = "sftp"
       THEN /\ last' = Outcome("__exit__", "SSHException", NoValue, 0, 1)
            /\ UNCHANGED <<sftp, client, is_open, ch>>
       ELSE /\ sftp' = "closed"
            /\ IF failAt = "client"
               THEN /\ last' = Outcome("__exit__", "SSHException", NoValue, 0, 2)
                    /\ UNCHANGED <<client, is_open, ch>>
               ELSE /\ client' = "closed"
                    /\ is_open' = FALSE
                    /\ ch' = IdleChannel
                    /\ last' = Outcome("__exit__", "ok", NoValue, 0, 2)
    /\ UNCHANGED <<cwd, fs, pc>>

(***************************************************************************)
(* Filesystem operations                                                   *)
(***************************************************************************)
\* a request on a sub-channel that is no longer usable
Dead(op) == Outcome(op, "SSHException", NoValue, 0, 1)

\* an IOError raised by a primitive of the sub-channel
Failed(op, errno, reqs) == Outcome(op, "IOError", NoValue, errno, reqs)

\* chdir forwarding None to paramiko, which then forgets its directory
ChdirForwardingNone(path) ==
    IF path # NonePath THEN SftpChdir(fs, cwd, path)
    ELSE [outcome |-> "ok", errno |-> 0, cwd |-> NonePath, reqs |-> 0]

\* if path is not None: self.sftp.chdir(path)
ChdirIfGiven(path) ==
    IF path # NonePath THEN SftpChdir(fs, cwd, path)
    ELSE [outcome |-> "ok", errno |-> 0, cwd |-> cwd, reqs |-> 0]

\* SshTransport.chdir
Chdir(path) ==
    /\ pc = "idle"
    /\ IF ~is_open
       THEN /\ last' = NotOpen("chdir")
            /\ UNCHANGED cwd
       ELSE IF ~SftpUsable
       THEN /\ last' = Dead("chdir")
            /\ UNCHANGED cwd
       ELSE LET r == ChdirIfGiven(path)
                st == SftpStat(fs, r.cwd, <<".">>)
            IN  /\ cwd' = r.cwd
                /\ last' = IF r.outcome # "ok"
                           THEN Outcome("chdir", r.outcome, NoValue, r.errno, r.reqs)
                           ELSE IF st.errno # 0
                           THEN Failed("chdir", st.errno, r.reqs + 1)
                           ELSE Outcome("chdir", "ok", NoValue, 0, r.reqs + 1)
    /\ UNCHANGED <<is_open, sftp, client, fs, scope, pc, ch>>

\* a normalize that also moves the session to the path it resolved
NormalizeMovingCwd(path) ==
    /\ pc = "idle"
    /\ last' = IF ~is_open THEN NotOpen("normalize")
               ELSE IF ~SftpUsable THEN Dead("normalize")
               ELSE IF path = NonePath THEN Outcome("normalize", "TypeError", NoValue, 0, 0)
               ELSE Outcome("normalize", "ok", SftpNormalize(cwd, path), 0, 1)
    /\ cwd' = IF is_open /\ SftpUsable /\ path # NonePath
              THEN SftpNormalize(cwd, path) ELSE cwd
    /\ UNCHANGED <<is_open, sftp, client, fs, scope, pc, ch>>

\* SshTransport.normalize
Normalize(path) ==
    /\ pc = "idle"
    /\ last' = IF ~is_open THEN NotOpen("normalize")
               ELSE IF ~SftpUsable THEN Dead("normalize")
               ELSE IF path = NonePath THEN Outcome("normalize", "TypeError", NoValue, 0, 0)
               ELSE Outcome("normalize", "ok", SftpNormalize(cwd, path), 0, 1)
    /\ UNCHANGED <<is_open, sftp, client, cwd, fs, scope, pc, ch>>

\* SshTransport.getcwd
Getcwd ==
    /\ pc = "idle"
    /\ last' = IF ~is_open THEN NotOpen("getcwd")
               ELSE Outcome("getcwd", "ok", cwd, 0, 0)
    /\ UNCHANGED <<is_open, sftp, client, cwd, fs, scope, pc, ch>>

\* the guards of the sftp property, then the primitive's result
Guarded(op, res) ==
    IF ~is_open THEN NotOpen(op)
    ELSE IF ~SftpUsable THEN Dead(op)
    ELSE res

\* a primitive that is given None instead of a path
NoneArg(op) == Outcome(op, "TypeError", NoValue, 0, 0)

\* result of a primitive that needs the path to exist
OnStat(op, path, okValue) ==
    IF path = NonePath THEN NoneArg(op)
    ELSE LET st == SftpStat(fs, cwd, path) IN
         IF st.errno # 0 THEN Failed(op, st.errno, 1)
         ELSE Outcome(op, "ok", okValue, 0, 1)

\* the server's answer to mkdir: [errno, message, created]
ServerMkdir(f, path) ==
    LET w == IF IsAbs(path) THEN Walk(f, Root, Tail(path)) ELSE Walk(f, Home, path) IN
    IF w.errno # 0 THEN [ok |-> FALSE, errno |-> w.errno, node |-> w.node]
    ELSE IF Kind(f, w.node) # "absent" THEN [ok |-> FALSE, errno |-> 0, node |-> w.node]
    ELSE IF w.node = DirM THEN [ok |-> TRUE, errno |-> 0, node |-> DirM]
    ELSE [ok |-> FALSE, errno |-> EACCES, node |-> w.node]

\* e.message of an IOError: empty when it was built from (errno, text)
Message(errno) == IF errno = 0 THEN <<"Failure">> ELSE <<"">>

\* SshTransport.mkdir
Mkdir(path) ==
    /\ pc = "idle"
    /\ IF ~is_open \/ ~SftpUsable \/ path = NonePath
       THEN /\ last' = Guarded("mkdir", NoneArg("mkdir"))
            /\ UNCHANGED fs
       ELSE LET r == ServerMkdir(fs, AdjustCwd(cwd, path)) IN
            IF r.ok
            THEN /\ fs' = fs \cup {r.node}
                 /\ last' = Outcome("mkdir", "ok", NoValue, 0, 1)
            ELSE /\ UNCHANGED fs
                 /\ last' = Outcome("mkdir", "OSError", Message(r.errno), 0, 1)
    /\ UNCHANGED <<is_open, sftp, client, cwd, scope, pc, ch>>

\* SshTransport.rmdir
Rmdir(path) ==
    /\ pc = "idle"
    /\ IF ~is_open \/ ~SftpUsable \/ path = NonePath
       THEN /\ last' = Guarded("rmdir", NoneArg("rmdir"))
            /\ UNCHANGED fs
       ELSE LET st == SftpStat(fs, cwd, path) IN
            IF st.errno # 0
            THEN /\ last' = Failed("rmdir", st.errno, 1)
                 /\ UNCHANGED fs
            ELSE IF st.node = DirM
            THEN /\ fs' = fs \ {DirM}
                 /\ last' = Outcome("rmdir", "ok", NoValue, 0, 1)
            ELSE /\ last' = Failed("rmdir", 0, 1)
                 /\ UNCHANGED fs
    /\ UNCHANGED <<is_open, sftp, client, cwd, scope, pc, ch>>

\* an isdir that answers False to every failure of stat
IsdirSwallowingErrors(path) ==
    /\ pc = "idle"
    /\ last' = IF ~Truthy(path) THEN Outcome("isdir", "ok", PyFalse, 0, 0)
               ELSE Guarded("isdir",
                    LET st == SftpStat(fs, cwd, path) IN
                    IF st.errno = 0
                    THEN Outcome("isdir", "ok",
                                 IF S_ISDIR(fs, st.node) THEN PyTrue ELSE PyFalse, 0, 1)
                    ELSE Outcome("isdir", "ok", PyFalse, 0, 1))
    /\ UNCHANGED <<is_open, sftp, client, cwd, fs, scope, pc, ch>>

\* SshTransport.isdir
Isdir(path) ==
    /\ pc = "idle"
    /\ last' = IF ~Truthy(path) THEN Outcome("isdir", "ok", PyFalse, 0, 0)
               ELSE Guarded("isdir",
                    LET st == SftpStat(fs, cwd, path) IN
                    IF st.errno = 0
                    THEN Outcome("isdir", "ok",
                                 IF S_ISDIR(fs, st.node) THEN PyTrue ELSE PyFalse, 0, 1)
                    ELSE IF st.errno = ENOENT THEN Outcome("isdir", "ok", PyFalse, 0, 1)
                    ELSE Failed("isdir", st.errno, 1))
    /\ UNCHANGED <<is_open, sftp, client, cwd, fs, scope, pc, ch>>

\* an isfile that hands the empty path to the sub-channel like any other path
IsfileGuardFirst(path) ==
    /\ pc = "idle"
    /\ last' = Guarded("isfile",
                    IF path = NonePath THEN NoneArg("isfile")
                    ELSE LET st == SftpStat(fs, cwd, path) IN
                    IF st.errno = 0
                    THEN Outcome("isfile", "ok",
                                 IF S_ISREG(fs, st.node) THEN PyTrue ELSE PyFalse, 0, 4)
                    ELSE IF st.errno = ENOENT THEN Outcome("isfile", "ok", PyFalse, 0, 2)
                    ELSE Failed("isfile", st.errno, 2))
    /\ UNCHANGED <<is_open, sftp, client, cwd, fs, scope, pc, ch>>

\* SshTransport.isfile: normalize and three stats feed the debug message
Isfile(path) ==
    /\ pc = "idle"
    /\ last' = IF ~Truthy(path) THEN Outcome("isfile", "ok", PyFalse, 0, 0)
               ELSE Guarded("isfile",
                    LET st == SftpStat(fs, cwd, path) IN
                    IF st.errno = 0
                    THEN Outcome("isfile", "ok",
                                 IF S_ISREG(fs, st.node) THEN PyTrue ELSE PyFalse, 0, 4)
                    ELSE IF st.errno = ENOENT THEN Outcome("isfile", "ok", PyFalse, 0, 2)
                    ELSE Failed("isfile", st.errno, 2))
    /\ UNCHANGED <<is_open, sftp, client, cwd, fs, scope, pc, ch>>

\* SshTransport.chmod
Chmod(path) ==
    /\ pc = "idle"
    /\ last' = IF ~Truthy(path) THEN Failed("chmod", 0, 0)
               ELSE Guarded("chmod", OnStat("chmod", path, NoValue))
    /\ UNCHANGED <<is_open, sftp, client, cwd, fs, scope, pc, ch>>

\* SshTransport.put; fails: the transfer fails at the primitive layer
Put(localpath, remotepath, fails) ==
    /\ pc = "idle"
    /\ last' = IF ~IsAbs(localpath) THEN Outcome("put", "ValueError", NoValue, 0, 0)
               ELSE Guarded("put",
                    IF remotepath = NonePath THEN NoneArg("put")
                    ELSE IF fails THEN Failed("put", 0, 1)
                    ELSE Outcome("put", "ok", NoValue, 0, 1))
    /\ UNCHANGED <<is_open, sftp, client, cwd, fs, scope, pc, ch>>

\* SshTransport.get
Get(remotepath, localpath) ==
    /\ pc = "idle"
    /\ last' = IF ~IsAbs(localpath) THEN Outcome("get", "ValueError", NoValue, 0, 0)
               ELSE Guarded("get", OnStat("get", remotepath, NoValue))
    /\ UNCHANGED <<is_open, sftp, client, cwd, fs, scope, pc, ch>>

\* SshTransport.get_attribute
GetAttribute(path) ==
    /\ pc = "idle"
    /\ last' = Guarded("get_attribute",
                   IF path = NonePath THEN NoneArg("get_attribute")
                   ELSE LET st == SftpStat(fs, cwd, path) IN
                        IF st.errno # 0 THEN Failed("get_attribute", st.errno, 1)
                        ELSE Outcome("get_attribute", "ok", <<Kind(fs, st.node)>>, 0, 1))
    /\ UNCHANGED <<is_open, sftp, client, cwd, fs, scope, pc, ch>>

\* SshTransport.listdir
Listdir(path) ==
    /\ pc = "idle"
    /\ last' = Guarded("listdir",
                   IF path = NonePath THEN NoneArg("listdir")
                   ELSE LET st == SftpStat(fs, cwd, path \o <<".">>) IN
                        IF st.errno # 0 THEN Failed("listdir", st.errno, 1)
                        ELSE Outcome("listdir", "ok", NoValue, 0, 1))
    /\ UNCHANGED <<is_open, sftp, client, cwd, fs, scope, pc, ch>>

\* SshTransport.remove: no file of the remote tree may be unlinked
Remove(path) ==
    /\ pc = "idle"
    /\ last' = Guarded("remove",
                   IF path = NonePath THEN NoneArg("remove")
                   ELSE LET st == SftpStat(fs, cwd, path) IN
                        IF st.errno # 0 THEN Failed("remove", st.errno, 1)
                        ELSE IF Kind(fs, st.node) = "file" THEN Failed("remove", EACCES, 1)
                        ELSE Failed("remove", 0, 1))
    /\ UNCHANGED <<is_open, sftp, client, cwd, fs, scope, pc, ch>>

(***************************************************************************)
(* Command execution                                                       *)
(***************************************************************************)
Commands == {"cat", "ls"}
StdinKinds == {"none", "str", "bad"}
ExecFailures == {"none", "open_session", "exec_command"}
ExitCodes == {0, 1}

\* the bytes of a stdin string of length n are 1..n; the bytes of the error stream
\* come after those of the longest stdin string
Bytes(n) == [i \in 1..n |-> i]
ErrByte(i) == MaxStdin + i

\* the channel right after _exec_command_internal returned its handles
OpenedChannel(caller, command, combine, inCap, winCap, errTotal) ==
    [IdleChannel EXCEPT
        !.open = TRUE, !.cd = cwd, !.cmd = command,
        !.issued = CommandToExecute(cwd, command), !.caller = caller,
        !.combine = combine, !.inCap = inCap, !.winCap = winCap,
        !.echo = (command = "cat"), !.errTotal = errTotal, !.alive = TRUE,
        !.trace = <<"channel_opened", "command_issued">>]

\* the channel a run leaves behind when it raises after exec_command: the remote
\* process is alive, its input was not half-closed, and nothing reads its output
AbandonedChannel ==
    [IdleChannel EXCEPT !.open = TRUE, !.alive = TRUE,
                        !.trace = <<"channel_opened", "command_issued">>]

\* the guard of the sshclient property, then open_session and exec_command
ExecGuard(op, failAt) ==
    IF ~is_open THEN NotOpen(op)
    ELSE IF client # "connected" \/ failAt = "open_session"
    THEN Outcome(op, "SSHException", NoValue, 0, 1)
    ELSE IF failAt = "exec_command" THEN Outcome(op, "SSHException", NoValue, 0, 2)
    ELSE Outcome(op, "ok", cwd, 0, 2)

\* SshTransport._exec_command_internal called on its own: the handles go to the caller
ExecCommandInternal(command, combine, failAt) ==
    /\ pc = "idle"
    /\ last' = ExecGuard("_exec_command_internal", failAt)
    /\ UNCHANGED <<is_open, sftp, client, cwd, fs, scope, pc, ch>>

\* the start of a run of exec_command_wait, up to the first blocking call
StartRun(caller, command, stdin, n, combine, failAt) ==
    LET g == ExecGuard(caller, failAt) IN
    IF g.outcome # "ok"
    THEN /\ last' = g
         /\ UNCHANGED <<pc, ch>>
    ELSE IF stdin = "bad"
    THEN /\ last' = Outcome(caller, "ValueError", NoValue, 0, 2)
         /\ ch' = AbandonedChannel
         /\ UNCHANGED pc
    ELSE /\ \E inCap \in 1..MaxCap, winCap \in 1..MaxCap, errTotal \in 0..MaxErr :
              ch' = [OpenedChannel(caller, command, combine, inCap, winCap, errTotal)
                       EXCEPT !.stdin = stdin, !.n = n,
                              !.trace = IF stdin = "str" /\ n = 0
                                        THEN Append(@, "stdin_written") ELSE @]
         /\ pc' = IF stdin = "str" /\ n > 0 THEN "write" ELSE "shutdown"
         /\ last' = Outcome(caller, "running", NoValue, 0, 2)

\* SshTransport.exec_command_wait
ExecCommandWait(command, stdin, n, combine, failAt) ==
    /\ pc = "idle"
    /\ stdin # "str" => n = 0
    /\ StartRun("exec_command_wait", command, stdin, n, combine, failAt)
    /\ UNCHANGED <<is_open, sftp, client, cwd, fs, scope>>

\* a copy that looks at its destination only after the command was run
CopyCheckingLate(remotesource, remotedestination, failAt) ==
    /\ pc = "idle"
    /\ IF ~Truthy(remotesource)
       THEN /\ last' = Outcome("copy", "ValueError", NoValue, 0, 0)
            /\ UNCHANGED <<pc, ch>>
       ELSE StartRun("copy", "cp", "none", 0, FALSE, failAt)
    /\ UNCHANGED <<is_open, sftp, client, cwd, fs, scope>>

\* SshTransport.copy
Copy(remotesource, remotedestination, failAt) ==
    /\ pc = "idle"
    /\ IF ~Truthy(remotesource) \/ ~Truthy(remotedestination)
       THEN /\ last' = Outcome("copy", "ValueError", NoValue, 0, 0)
            /\ UNCHANGED <<pc, ch>>
       ELSE StartRun("copy", "cp", "none", 0, FALSE, failAt)
    /\ UNCHANGED <<is_open, sftp, client, cwd, fs, scope>>

\* ssh_stdin.write / flush: one more byte enters the channel when its window has room
WriteStdin ==
    /\ pc = "write"
    /\ ch.sent < ch.n
    /\ Len(ch.inbuf) < ch.inCap
    /\ ch' = [ch EXCEPT !.inbuf = Append(@, ch.sent + 1), !.sent = @ + 1,
                        !.trace = IF ch.sent + 1 = ch.n
                                  THEN Append(@, "stdin_written") ELSE @]
    /\ pc' = IF ch.sent + 1 = ch.n THEN "shutdown" ELSE "write"
    /\ UNCHANGED <<is_open, sftp, client, cwd, fs, scope, last>>

\* ssh_stdin.channel.shutdown_write()
ShutdownWrite ==
    /\ pc = "shutdown"
    /\ ch' = [ch EXCEPT !.inEof = TRUE, !.trace = Append(@, "eof_signalled")]
    /\ pc' = "read_out"
    /\ UNCHANGED <<is_open, sftp, client, cwd, fs, scope, last>>

\* a read that returns what has arrived so far instead of reading to the end
ReadStdoutOnce ==
    /\ pc = "read_out"
    /\ ch' = [ch EXCEPT !.gotOut = @ \o ch.outbuf, !.outbuf = <<>>,
                        !.trace = Append(@, "output_read")]
    /\ pc' = "exit_status"
    /\ UNCHANGED <<is_open, sftp, client, cwd, fs, scope, last>>

\* stdout.read(): takes what has arrived, and ends at end-of-stream
ReadStdout ==
    /\ pc = "read_out"
    /\ \/ /\ ch.outbuf # <<>>
          /\ ch' = [ch EXCEPT !.gotOut = @ \o ch.outbuf, !.outbuf = <<>>]
          /\ UNCHANGED pc
       \/ /\ ch.outbuf = <<>>
          /\ ~ch.alive
          /\ ch' = [ch EXCEPT !.trace = Append(@, "output_read")]
          /\ pc' = "exit_status"
    /\ UNCHANGED <<is_open, sftp, client, cwd, fs, scope, last>>

\* channel.recv_exit_status(): blocks until the remote process has ended
RecvExitStatus(code) ==
    /\ pc = "exit_status"
    /\ ~ch.alive
    /\ ch' = [ch EXCEPT !.retval = code, !.trace = Append(@, "exit_status")]
    /\ pc' = "read_err"
    /\ UNCHANGED <<is_open, sftp, client, cwd, fs, scope, last>>

\* stderr.read()
ReadStderr ==
    /\ pc = "read_err"
    /\ \/ /\ ch.errbuf # <<>>
          /\ ch' = [ch EXCEPT !.gotErr = @ \o ch.errbuf, !.errbuf = <<>>]
          /\ UNCHANGED pc
       \/ /\ ch.errbuf = <<>>
          /\ ~ch.alive
          /\ ch' = [ch EXCEPT !.trace = Append(@, "error_read")]
          /\ pc' = "return"
    /\ UNCHANGED <<is_open, sftp, client, cwd, fs, scope, last>>

\* what copy makes of the result of exec_command_wait
CopyOutcome(retval) ==
    IF retval = 0 THEN Outcome("copy", "ok", PyTrue, 0, 2)
    ELSE Outcome("copy", "IOError", <<"Exit code">>, 0, 2)

\* return retval, output_text, stderr_text
Return ==
    /\ pc = "return"
    /\ last' = IF ch.caller = "copy" THEN CopyOutcome(ch.retval)
               ELSE Outcome("exec_command_wait", "ok", <<"result">>, 0, 2)
    /\ ch' = IdleChannel
    /\ pc' = "idle"
    /\ UNCHANGED <<is_open, sftp, client, cwd, fs, scope>>

(***************************************************************************)
(* The remote process of the running command: it first writes errTotal     *)
(* bytes to its error stream, then reads its input to the end, copying it  *)
(* to its output when it is cat, and ends once it has seen end-of-input    *)
(* and has written all of it; its exit code reaches the caller with        *)
(* recv_exit_status.                                                       *)
(***************************************************************************)
WindowFree(c) == Len(c.outbuf) + Len(c.errbuf) < c.winCap

ProcRead ==
    /\ ch.alive
    /\ ch.errSent = ch.errTotal
    /\ ch.held = 0
    /\ ch.inbuf # <<>>
    /\ ch' = [ch EXCEPT !.inbuf = Tail(@), !.held = IF ch.echo THEN Head(ch.inbuf) ELSE 0]
    /\ UNCHANGED <<is_open, sftp, client, cwd, fs, scope, last, pc>>

ProcWriteOut ==
    /\ ch.alive
    /\ ch.held # 0
    /\ WindowFree(ch)
    /\ ch' = [ch EXCEPT !.outbuf = Append(@, ch.held), !.held = 0]
    /\ UNCHANGED <<is_open, sftp, client, cwd, fs, scope, last, pc>>

ProcWriteErr ==
    /\ ch.alive
    /\ ch.errSent < ch.errTotal
    /\ WindowFree(ch)
    /\ ch' = IF ch.combine
             THEN [ch EXCEPT !.outbuf = Append(@, ErrByte(ch.errSent + 1)), !.errSent = @ + 1]
             ELSE [ch EXCEPT !.errbuf = Append(@, ErrByte(ch.errSent + 1)), !.errSent = @ + 1]
    /\ UNCHANGED <<is_open, sftp, client, cwd, fs, scope, last, pc>>

ProcExit ==
    /\ ch.alive
    /\ ch.inEof
    /\ ch.inbuf = <<>>
    /\ ch.held = 0
    /\ ch.errSent = ch.errTotal
    /\ ch' = [ch EXCEPT !.alive = FALSE]
    /\ UNCHANGED <<is_open, sftp, client, cwd, fs, scope, last, pc>>

(***************************************************************************)
(* Properties                                                              *)
(***************************************************************************)
FilesystemOps ==
    {"chdir", "normalize", "getcwd", "mkdir", "rmdir", "isdir", "isfile", "chmod",
     "put", "get", "get_attribute", "copy", "listdir", "remove"}
CommandOps == {"_exec_command_internal", "exec_command_wait"}

\* a step of the running exec_command_wait or of its remote process
RunStep ==
    \/ WriteStdin
    \/ ShutdownWrite
    \/ ReadStdout
    \/ \E code \in ExitCodes : RecvExitStatus(code)
    \/ ReadStderr
    \/ Return
    \/ ProcRead
    \/ ProcWriteOut
    \/ ProcWriteErr
    \/ ProcExit

IsPrefix(a, b) == Len(a) <= Len(b) /\ a = SubSeq(b, 1, Len(a))

StepsWithStdin ==
    <<"channel_opened", "command_issued", "stdin_written", "eof_signalled",
      "output_read", "exit_status", "error_read">>
StepsWithoutStdin ==
    <<"channel_opened", "command_issued", "eof_signalled",
      "output_read", "exit_status", "error_read">>

\* C1: every filesystem or command operation called while the session is closed
\* ends with TransportInternalError and makes no request, whatever its arguments.
C1_ClosedCallsRaiseNotOpen ==
    (~is_open /\ last.op \in FilesystemOps \cup CommandOps)
        => (last.outcome = "TransportInternalError" /\ last.reqs = 0)

\* C2: a run of exec_command_wait with a stdin string and an echoing process that
\* writes no error output never blocks for good, and returns the whole stdin as
\* its stdout.
C2_StdinRunNeverBlocks ==
    /\ (pc # "idle" /\ ch.stdin = "str" /\ ch.echo /\ ch.errTotal = 0) => ENABLED RunStep
    /\ (pc = "return" /\ ch.stdin = "str" /\ ch.echo /\ ch.errTotal = 0)
           => ch.gotOut = Bytes(ch.n)

\* C3: a run of exec_command_wait with combine_stderr false never blocks for good
\* when the remote process writes to its error stream.
C3_StderrRunNeverBlocks ==
    (pc # "idle" /\ ~ch.combine /\ ch.stdin = "none" /\ ch.errTotal > 0) => ENABLED RunStep

\* C4: the steps of a run of exec_command_wait happen in the fixed order, none
\* skipped when the run returns; the exit status is asked for only when the output
\* stream is at its end with nothing unread, and the error stream is read only
\* after the exit status was obtained.
C4_StepsInOrder ==
    LET steps == IF ch.stdin = "str" THEN StepsWithStdin ELSE StepsWithoutStdin IN
    /\ IsPrefix(ch.trace, steps)
    /\ pc = "return" => ch.trace = steps
    /\ pc \in {"exit_status", "read_err", "return"} => (ch.outbuf = <<>> /\ ~ch.alive)
    /\ pc \in {"read_err", "return"} => ch.retval \in ExitCodes
    /\ (ch.gotErr # <<>> \/ pc = "return") => ch.retval \in ExitCodes
    /\ pc \in {"write", "shutdown", "read_out", "exit_status"} => ch.gotErr = <<>>
    /\ pc \in {"write", "shutdown"} => ch.gotOut = <<>>

C4_Witness ==
    /\ pc = "return"
    /\ ch.stdin = "str"
    /\ ch.n = MaxStdin
    /\ ch.trace = StepsWithStdin
    /\ ch.gotErr # <<>>

\* C5: every run that issued a command half-closes the write side before the
\* first read and after all stdin bytes were written, and no run ends leaving the
\* remote process with an input that is never closed.
C5_HalfCloseAlways ==
    /\ pc \in {"read_out", "exit_status", "read_err", "return"}
           => (ch.inEof /\ ch.sent = ch.n)
    /\ (pc = "idle" /\ ch.open) => ch.inEof

\* C6: exec_command_wait with a stdin that is neither None, a string nor a file
\* raises ValueError before any channel was opened or any command issued.
C6_BadStdinBeforeChannelIO ==
    (last.op = "exec_command_wait" /\ last.outcome = "ValueError")
        => (last.reqs = 0 /\ ~ch.open)

\* C7: __exit__ never leaves the session open, whichever close step fails.
C7_CloseNeverLeavesOpen ==
    last.op = "__exit__" => ~is_open

\* C8: once a with block has been left, the session is closed, and so are the
\* sub-channel and the connection.
C8_ScopeLeftMeansClosed ==
    scope = "left" => (~is_open /\ sftp = "closed" /\ client = "closed")

\* C9: a chdir that raises leaves the working directory as it was.
C9_FailedChdirKeepsCwd ==
    [][\A path \in PathArgs : (Chdir(path) /\ last'.outcome # "ok") => cwd' = cwd]_vars

\* C10: while the session is open the working directory is set: getcwd() is a
\* non-empty absolute normalized path, never None.
C10_CwdAlwaysSet ==
    /\ is_open => (cwd # NonePath /\ cwd # <<>> /\ IsAbs(cwd) /\ Resolve(cwd) = cwd)
    /\ (last.op = "getcwd" /\ last.outcome = "ok")
           => (last.value # NonePath /\ last.value # <<>> /\ IsAbs(last.value))

C10_Witness ==
    /\ is_open
    /\ last.op = "getcwd"
    /\ last.outcome = "ok"
    /\ last.value = DirP

\* C11: every command issued on an open session is composed as
\* cd <escaped working directory> && <command>, and the working directory at the
\* moment of issue is the target of the most recent successful chdir, or the
\* initial normalized directory: it is set by a successful open and afterwards
\* moved by nothing but a chdir that succeeds.
C11_CommandsRunInChdirTarget ==
    [][ /\ (pc = "idle" /\ pc' # "idle")
               => /\ ch'.issued = <<"cd">> \o EscapeForBash(cwd) \o <<"&&", ch'.cmd>>
                  /\ ShellDir(ch'.issued) = cwd
        /\ (last'.op = "_exec_command_internal" /\ last'.outcome = "ok")
               => last'.value = cwd
        /\ (~is_open /\ is_open')
               => (last'.op = "__enter__" /\ cwd' = SftpNormalize(NonePath, <<".">>))
        /\ (is_open /\ is_open' /\ cwd' # cwd)
               => (last'.op = "chdir" /\ last'.outcome = "ok") ]_vars

\* C12: chdir(None) on an open session is a no-op: the working directory stays,
\* no request goes to the sub-channel, and the call does not fail.
C12_ChdirNoneIsNoOp ==
    [][(is_open /\ Chdir(NonePath))
          => (cwd' = cwd /\ last'.reqs = 0 /\ last'.outcome = "ok")]_vars

\* C13: on an open session and for a non-empty path, isdir and isfile return False
\* when stat fails with errno 2, return whether the mode is that of a directory
\* (of a regular file) when stat succeeds, and re-raise every other failure of
\* stat with its errno; a failure is never turned into False.
C13_StatErrorsOfIsdirIsfile ==
    [][(is_open /\ last'.op \in {"isdir", "isfile"}) =>
        \A path \in PathArgs :
          Truthy(path) =>
              LET st == SftpStat(fs, cwd, path)
                  said(v) == last'.outcome = "ok" /\ last'.value = v
                  raised == last'.outcome = "IOError" /\ last'.errno = st.errno
              IN  /\ (SftpUsable /\ Isdir(path)) =>
                        /\ st.errno = ENOENT => said(PyFalse)
                        /\ (st.errno = 0 /\ S_ISDIR(fs, st.node)) => said(PyTrue)
                        /\ (st.errno = 0 /\ ~S_ISDIR(fs, st.node)) => said(PyFalse)
                        /\ st.errno \notin {0, ENOENT} => raised
                  /\ (SftpUsable /\ Isfile(path)) =>
                        /\ st.errno = ENOENT => said(PyFalse)
                        /\ (st.errno = 0 /\ S_ISREG(fs, st.node)) => said(PyTrue)
                        /\ (st.errno = 0 /\ ~S_ISREG(fs, st.node)) => said(PyFalse)
                        /\ st.errno \notin {0, ENOENT} => raised
                  /\ (~SftpUsable /\ (Isdir(path) \/ Isfile(path)))
                        => last'.outcome \notin {"ok", "TransportInternalError"} ]_vars

C13_Witness ==
    /\ is_open
    /\ SftpUsable
    /\ last.op = "isdir"
    /\ last.outcome = "IOError"
    /\ last.errno = EACCES

\* C14: isdir('') and isfile('') return False and make no request, whether the
\* session is open or closed and whatever the working directory is.
C14_EmptyPathIsFalse ==
    [][ /\ Isdir(<<>>) => last' = Outcome("isdir", "ok", PyFalse, 0, 0)
        /\ Isfile(<<>>) => last' = Outcome("isfile", "ok", PyFalse, 0, 0) ]_vars

C14_Witness ==
    /\ is_open
    /\ cwd = DirD
    /\ last = Outcome("isfile", "ok", PyFalse, 0, 0)

\* C15: mkdir on an open session raises the already-exists error exactly when the
\* path exists, raises a different, generic I/O error for every other failure, and
\* after it succeeded isdir of the same path is True.
C15_MkdirErrors ==
    [][\A path \in PathArgs \ {NonePath} :
          (is_open /\ SftpUsable /\ Mkdir(path)) =>
              LET exists == ServerStat(fs, AdjustCwd(cwd, path)).errno = 0
                  after == SftpStat(fs', cwd', path)
              IN  /\ exists <=> last'.outcome = "OSError"
                  /\ (~exists /\ last'.outcome # "ok") => last'.outcome = "IOError"
                  /\ last'.outcome = "ok"
                        => (Truthy(path) /\ after.errno = 0 /\ S_ISDIR(fs', after.node)) ]_vars

\* the error raised by copy names the given part of the command's result
Carries(o, what) == \E i \in DOMAIN o.value : o.value[i] = what

\* C16: copy with non-empty paths on an open session issues one cp command, runs
\* it to completion, returns True when the exit code is 0, and raises an I/O error
\* carrying the exit code, the stdout and the stderr when the exit code is not 0.
C16_CopyOutcome ==
    /\ [][ /\ (pc = "idle" /\ pc' # "idle" /\ ch'.caller = "copy")
                  => (ch'.cmd = "cp" /\ last'.reqs = 2)
           /\ (ch.caller = "copy" /\ Return) =>
                  /\ ch.retval = 0 => last' = Outcome("copy", "ok", PyTrue, 0, 2)
                  /\ ch.retval # 0 =>
                        /\ last'.outcome = "IOError"
                        /\ Carries(last', "Exit code")
                        /\ Carries(last', "stdout")
                        /\ Carries(last', "stderr") ]_vars
    /\ []((pc # "idle" /\ ch.caller = "copy") => ENABLED RunStep)

\* C17: copy with an empty source or an empty destination raises ValueError
\* without opening a command channel and without any request, whatever the other
\* path is and whether the session is open or not.
C17_CopyEmptyArgument ==
    [][last'.op = "copy" =>
        \A src \in CopyArgs, dst \in CopyArgs, failAt \in ExecFailures :
          ((src = <<>> \/ dst = <<>>) /\ Copy(src, dst, failAt))
              => /\ last' = Outcome("copy", "ValueError", NoValue, 0, 0)
                 /\ ch' = ch
                 /\ pc' = pc ]_vars

C17_Witness ==
    /\ is_open
    /\ SftpUsable
    /\ last = Outcome("copy", "ValueError", NoValue, 0, 0)
    /\ ~ch.open

\* C18: the working directory is changed by nothing but a chdir with a path that
\* is not None, and by open: every other operation leaves it as it was, whether it
\* succeeds or fails.
C18_OnlyChdirMovesCwd ==
    [][cwd' # cwd =>
          \/ \E path \in PathArgs \ {NonePath} : Chdir(path)
          \/ \E failAt \in EnterFailures, scoped \in BOOLEAN : Enter(failAt, scoped) ]_vars

C18_Witness ==
    /\ is_open
    /\ cwd = DirD
    /\ last.op = "copy"
    /\ last.outcome = "IOError"

\* C19: whenever the session is open the connection is established and the
\* sub-channel exists and is not closed.
C19_OpenMeansUsable ==
    is_open => (client = "connected" /\ sftp = "open")

\* C20: an open that fails at any step leaves the session closed, with every
\* later operation raising TransportInternalError; an open that succeeds has
\* connected, opened the sub-channel and set the initial directory.
C20_FailedOpenStaysClosed ==
    /\ [][\A failAt \in EnterFailures, scoped \in BOOLEAN :
             Enter(failAt, scoped) =>
                 /\ failAt # "none" => (last'.outcome # "ok" /\ ~is_open')
                 /\ is_open' => /\ last'.outcome = "ok"
                                /\ client' = "connected"
                                /\ sftp' = "open"
                                /\ cwd' = SftpNormalize(NonePath, <<".">>) ]_vars
    /\ []((~is_open /\ client = "connected" /\ last.op \in FilesystemOps \cup CommandOps)
              => last.outcome = "TransportInternalError")


Next ==
    \/ \E failAt \in EnterFailures, scoped \in BOOLEAN : Enter(failAt, scoped)
    \/ \E failAt \in ExitFailures, scoped \in BOOLEAN : Exit(failAt, scoped)
    \/ \E path \in PathArgs : Chdir(path)
    \/ \E path \in PathArgs : Normalize(path)
    \/ Getcwd
    \/ \E path \in PathArgs : Mkdir(path)
    \/ \E path \in PathArgs : Rmdir(path)
    \/ \E path \in PathArgs : Isdir(path)
    \/ \E path \in PathArgs : Isfile(path)
    \/ \E path \in PathArgs : Chmod(path)
    \/ \E l \in LocalPaths, r \in PathArgs, fails \in BOOLEAN : Put(l, r, fails)
    \/ \E r \in PathArgs, l \in LocalPaths : Get(r, l)
    \/ \E path \in PathArgs : GetAttribute(path)
    \/ \E path \in PathArgs : Listdir(path)
    \/ \E path \in PathArgs : Remove(path)
    \/ \E command \in Commands, combine \in BOOLEAN, failAt \in ExecFailures :
          ExecCommandInternal(command, combine, failAt)
    \/ \E command \in Commands, stdin \in StdinKinds, n \in 0..MaxStdin,
          combine \in BOOLEAN, failAt \in ExecFailures :
          ExecCommandWait(command, stdin, n, combine, failAt)
    \/ \E src \in CopyArgs, dst \in CopyArgs, failAt \in ExecFailures :
          Copy(src, dst, failAt)
    \/ WriteStdin
    \/ ShutdownWrite
    \/ ReadStdout
    \/ \E code \in ExitCodes : RecvExitStatus(code)
    \/ ReadStderr
    \/ Return
    \/ ProcRead
    \/ ProcWriteOut
    \/ ProcWriteErr
    \/ ProcExit

Spec == Init /\ [][Next]_vars

====
